---- MODULE Spec2Model ----
(***************************************************************************)
(* ruc ("run under control"): a supervisor that starts a program, lets it  *)
(* run for the -run period, sends it SIGTERM, waits the -grace period,     *)
(* sends it SIGKILL, waits for it to exit and starts it again.             *)
(*                                                                         *)
(* The model follows src/main.go lines 103-194 (func run and func main):   *)
(* the main goroutine (the main loop and the body of run, one position per *)
(* statement that blocks or has an effect), the goroutine that calls       *)
(* cmd.Wait and sends the result on done, the goroutine that receives the  *)
(* host's SIGTERM/SIGINT, the two tickers, and the child process.          *)
(***************************************************************************)
EXTENDS Integers, Sequences, FiniteSets

\* ------------------------------------------------------------------ bounds
\* Largest -run / -grace duration tried (durations only matter by sign).
MaxPeriod == 1
\* Number of stop signals the host delivers to the supervisor.
MaxSignals == 2
\* The cycle counter saturates here (the loop itself is unbounded).
MaxCycles == 1

Periods == (0 - 1)..MaxPeriod

HostSignals == {"SIGINT", "SIGTERM"}

\* Wait statuses of the child: its own exit code, or death by a signal.
OwnStatuses == {"exit0", "exit1"}
Statuses == OwnStatuses \cup {"sigterm", "sigkill"}

VARIABLES
    runP,        \* *runF, the -run flag
    graceP,      \* *graceF, the -grace flag
    sup,         \* the supervisor process: "running", "fatal" (log.Fatal), "panic"
    pc,          \* position of the main goroutine
    cycles,      \* completed cycles that were followed by another one (saturating)
    child,       \* "none", "alive", "zombie" (exited, not waited for), "reaped"
    status,      \* the child's wait status, "none" while it has not exited
    disp,        \* what the child does on SIGTERM and on SIGKILL
    waiter,      \* goroutine of lines 120-122: "none", "waiting", "holding", "sent"
    done,        \* chan error of capacity 1
    runT,        \* ticker runT: "none", "active", "stopped"
    runTC,       \* a tick is buffered in runT.C
    graceT,      \* ticker graceT: "none", "active", "stopped"
    graceTC,     \* a tick is buffered in graceT.C
    cancelled,   \* ctx.Done() is closed
    signals,     \* chan os.Signal of capacity 1
    sigSent,     \* stop signals the host has delivered to the supervisor
    relay,       \* goroutine of lines 180-187: "recv1", "cancel", "recv2", "panicked"
    sent,        \* signals run has sent to the child in this cycle, in order
    failed,      \* signals whose delivery returned an error in this cycle (logged)
    runBranch,   \* case taken by the select of line 125 in this cycle
    graceBranch, \* case taken by the select of line 142 in this cycle
    retErr       \* the error run returned ("none" while it has not returned)

cfgVars == <<runP, graceP>>
childVars == <<child, status, disp>>
waiterVars == <<waiter, done>>
timerVars == <<runT, runTC, graceT, graceTC>>
relayVars == <<cancelled, signals, sigSent, relay>>
cycleVars == <<sent, failed, runBranch, graceBranch, retErr>>
vars == <<cfgVars, sup, pc, cycles, childVars, waiterVars, timerVars, relayVars, cycleVars>>

\* ----------------------------------------------------------------- helpers

\* Mutant of ErrOf: the exit status is dropped, every exit reads as success.
ErrOfLost(st) == "nil"

\* cmd.Wait: nil when the child exited with status 0, an *ExitError otherwise.
ErrOf(st) == IF st = "exit0" THEN "nil" ELSE st

\* Mutant of TickerPanics: a zero duration is accepted.
TickerPanicsNegativeOnly(d) == d < 0

\* time.NewTicker panics unless the duration is positive.
TickerPanics(d) == d <= 0

\* A select statement proceeds with any one of its ready cases.
Select(ready) == ready

\* Mutant of Fatal: a launch error is retried like a clean exit.
FatalRetriesLaunch(err) == err \notin {"nil", "launcherr"}

\* Mutant of Fatal: the loop also stops once the token is raised.
FatalOrCancelled(err) == err # "nil" \/ cancelled

\* Mutant of Fatal: the test of line 190 inverted.
FatalInverted(err) == err = "nil"

\* main, line 190: any non-nil error of run ends the supervisor.
Fatal(err) == err # "nil"

\* Mutant of DoneCap: done is made without a buffer.
DoneCapUnbuffered == 1 - 1

\* done := make(chan error, 1)
DoneCap == 1

\* signals := make(chan os.Signal, 1)
SignalsCap == 1

\* os.Process.Signal fails once Wait has returned.
SignalFails == child = "reaped"

\* The child dies of the signal iff it is alive and does not ignore it.
Dies(sig) == child = "alive" /\ disp[sig] = "die"

\* The state a call of run starts from (its locals are fresh).
CycleReset ==
    /\ child' = "none" /\ status' = "none"
    /\ disp' = [TERM |-> "die", KILL |-> "die"]
    /\ waiter' = "none" /\ done' = <<>>
    /\ runT' = "none" /\ runTC' = FALSE
    /\ graceT' = "none" /\ graceTC' = FALSE
    /\ sent' = <<>> /\ failed' = {}
    /\ runBranch' = "none" /\ graceBranch' = "none"
    /\ retErr' = "none"

\* return err, with the deferred runT.Stop() and graceT.Stop().
Return(err) ==
    /\ retErr' = err
    /\ pc' = "Returned"
    /\ runT' = IF runT = "active" THEN "stopped" ELSE runT
    /\ graceT' = IF graceT = "active" THEN "stopped" ELSE graceT
    /\ UNCHANGED <<runTC, graceTC>>

Init ==
    /\ runP \in Periods /\ graceP \in Periods
    /\ sup = "running"
    /\ pc = "NewRunT"
    /\ cycles = 0
    /\ child = "none" /\ status = "none"
    /\ disp = [TERM |-> "die", KILL |-> "die"]
    /\ waiter = "none" /\ done = <<>>
    /\ runT = "none" /\ runTC = FALSE
    /\ graceT = "none" /\ graceTC = FALSE
    /\ cancelled = FALSE /\ signals = <<>> /\ sigSent = 0 /\ relay = "recv1"
    /\ sent = <<>> /\ failed = {}
    /\ runBranch = "none" /\ graceBranch = "none"
    /\ retErr = "none"

\* ------------------------------------------------ run: the main goroutine

\* line 104: runT := time.NewTicker(run)
NewRunT ==
    /\ sup = "running" /\ pc = "NewRunT"
    /\ IF TickerPanics(runP)
       THEN /\ sup' = "panic"
            /\ UNCHANGED <<pc, runT>>
       ELSE /\ runT' = "active"
            /\ pc' = "Start"
            /\ UNCHANGED sup
    /\ UNCHANGED <<cfgVars, cycles, childVars, waiterVars, runTC, graceT, graceTC,
                   relayVars, cycleVars>>

\* lines 108-116: cmd.Start() fails, run returns the error.
StartFails ==
    /\ sup = "running" /\ pc = "Start"
    /\ Return("launcherr")
    /\ UNCHANGED <<cfgVars, sup, cycles, childVars, waiterVars, relayVars,
                   sent, failed, runBranch, graceBranch>>

\* lines 108-122: cmd.Start() succeeds; the goroutine calling cmd.Wait starts.
StartOK ==
    /\ sup = "running" /\ pc = "Start"
    /\ child' = "alive"
    /\ \E t \in {"die", "ignore"}, k \in {"die", "ignore"} :
          disp' = [TERM |-> t, KILL |-> k]
    /\ waiter' = "waiting"
    /\ pc' = "Running"
    /\ UNCHANGED <<cfgVars, sup, cycles, status, done, timerVars, relayVars, cycleVars>>

\* Mutant of ReadyRunning: the ticker case does not wait for a tick.
ReadyRunningEager ==
    {c \in {"ctx"} : cancelled} \cup {c \in {"done"} : done # <<>>} \cup {"tick"}

\* Mutant of ReadyRunning: the select has no ctx.Done() case.
ReadyRunningNoCtx ==
    {c \in {"done"} : done # <<>>} \cup {c \in {"tick"} : runTC}

\* The cases of the select of line 125 that can proceed.
ReadyRunning ==
    {c \in {"ctx"} : cancelled} \cup {c \in {"done"} : done # <<>>}
        \cup {c \in {"tick"} : runTC}

\* lines 125-132: wait for ctx to be canceled, program to exit, or runT to tick.
SelectRunning ==
    /\ sup = "running" /\ pc = "Running"
    /\ \E c \in Select(ReadyRunning) :
          /\ runBranch' = c
          /\ CASE c = "done" -> /\ Return(Head(done))
                                /\ done' = Tail(done)
             [] c = "tick" -> /\ runTC' = FALSE
                              /\ pc' = "Term"
                              /\ UNCHANGED <<done, retErr, runT, graceT, graceTC>>
             [] c = "ctx" -> /\ pc' = "Term"
                             /\ UNCHANGED <<done, retErr, timerVars>>
    /\ UNCHANGED <<cfgVars, sup, cycles, childVars, waiter, relayVars,
                   sent, failed, graceBranch>>

\* Mutant of SendSignal: an error of Signal is returned by run.
SendSignalReturnsErr(sig, next) ==
    /\ sent' = Append(sent, sig)
    /\ failed' = IF SignalFails THEN failed \cup {sig} ELSE failed
    /\ IF Dies(sig)
       THEN /\ child' = "zombie"
            /\ status' = IF sig = "TERM" THEN "sigterm" ELSE "sigkill"
       ELSE UNCHANGED <<child, status>>
    /\ IF SignalFails
       THEN Return("sigerr")
       ELSE /\ pc' = next
            /\ UNCHANGED <<timerVars, retErr>>
    /\ UNCHANGED <<cfgVars, sup, cycles, disp, waiterVars, relayVars,
                   runBranch, graceBranch>>

\* cmd.Process.Signal(sig); an error is logged and nothing else.
SendSignal(sig, next) ==
    /\ sent' = Append(sent, sig)
    /\ failed' = IF SignalFails THEN failed \cup {sig} ELSE failed
    /\ IF Dies(sig)
       THEN /\ child' = "zombie"
            /\ status' = IF sig = "TERM" THEN "sigterm" ELSE "sigkill"
       ELSE UNCHANGED <<child, status>>
    /\ pc' = next
    /\ UNCHANGED <<cfgVars, sup, cycles, disp, waiterVars, timerVars, relayVars,
                   runBranch, graceBranch, retErr>>

\* Mutant of SendTERM: the wrong signal is sent first.
SendTERMAsKILL ==
    /\ sup = "running" /\ pc = "Term"
    /\ SendSignal("KILL", "NewGraceT")

\* lines 135-137: ask program to exit.
SendTERM ==
    /\ sup = "running" /\ pc = "Term"
    /\ SendSignal("TERM", "NewGraceT")

\* line 140: graceT := time.NewTicker(grace)
NewGraceT ==
    /\ sup = "running" /\ pc = "NewGraceT"
    /\ IF TickerPanics(graceP)
       THEN /\ sup' = "panic"
            /\ runT' = "stopped"
            /\ UNCHANGED <<pc, graceT>>
       ELSE /\ graceT' = "active"
            /\ pc' = "Terminating"
            /\ UNCHANGED <<sup, runT>>
    /\ UNCHANGED <<cfgVars, cycles, childVars, waiterVars, runTC, graceTC,
                   relayVars, cycleVars>>

\* Mutant of ReadyTerminating: a cancelled ctx ends the grace wait like a tick.
ReadyTerminatingCtx ==
    {c \in {"done"} : done # <<>>} \cup {c \in {"tick"} : graceTC \/ cancelled}

\* The cases of the select of line 142 that can proceed (ctx is not one).
ReadyTerminating ==
    {c \in {"done"} : done # <<>>} \cup {c \in {"tick"} : graceTC}

\* Mutant of SelectTerminating: after the grace tick run returns at once, without
\* killing the child or waiting for it.
SelectTerminatingGivesUp ==
    /\ sup = "running" /\ pc = "Terminating"
    /\ \E c \in Select(ReadyTerminating) :
          /\ graceBranch' = c
          /\ CASE c = "done" -> /\ Return(Head(done))
                                /\ done' = Tail(done)
             [] c = "tick" -> /\ Return("nil")
                              /\ UNCHANGED done
    /\ UNCHANGED <<cfgVars, sup, cycles, childVars, waiter, relayVars,
                   sent, failed, runBranch>>

\* lines 142-147: wait for program to exit, or for graceT to tick.
SelectTerminating ==
    /\ sup = "running" /\ pc = "Terminating"
    /\ \E c \in Select(ReadyTerminating) :
          /\ graceBranch' = c
          /\ CASE c = "done" -> /\ Return(Head(done))
                                /\ done' = Tail(done)
             [] c = "tick" -> /\ graceTC' = FALSE
                              /\ pc' = "Kill"
                              /\ UNCHANGED <<done, retErr, runT, runTC, graceT>>
    /\ UNCHANGED <<cfgVars, sup, cycles, childVars, waiter, relayVars,
                   sent, failed, runBranch>>

\* Mutant of SendKILL: after the kill the grace wait is entered again.
SendKILLRewait ==
    /\ sup = "running" /\ pc = "Kill"
    /\ SendSignal("KILL", "Terminating")

\* lines 150-152: kill program.
SendKILL ==
    /\ sup = "running" /\ pc = "Kill"
    /\ SendSignal("KILL", "Killing")

\* Mutant of WaitDone: a cancelled ctx ends the kill wait.
WaitDoneCtx ==
    /\ sup = "running" /\ pc = "Killing"
    /\ done # <<>> \/ cancelled
    /\ Return(IF done # <<>> THEN Head(done) ELSE "nil")
    /\ done' = <<>>
    /\ UNCHANGED <<cfgVars, sup, cycles, childVars, waiter, relayVars,
                   sent, failed, runBranch, graceBranch>>

\* Mutant of WaitDone: the kill wait gives up when no exit status has arrived.
WaitDoneTimeout ==
    /\ sup = "running" /\ pc = "Killing"
    /\ Return(IF done # <<>> THEN Head(done) ELSE "nil")
    /\ done' = <<>>
    /\ UNCHANGED <<cfgVars, sup, cycles, childVars, waiter, relayVars,
                   sent, failed, runBranch, graceBranch>>

\* line 155: return <-done
WaitDone ==
    /\ sup = "running" /\ pc = "Killing"
    /\ done # <<>>
    /\ Return(Head(done))
    /\ done' = Tail(done)
    /\ UNCHANGED <<cfgVars, sup, cycles, childVars, waiter, relayVars,
                   sent, failed, runBranch, graceBranch>>

\* ------------------------------------------------------------ main's loop

\* lines 189-193: log.Fatal on an error of run, else call run again.
MainLoop ==
    /\ sup = "running" /\ pc = "Returned"
    /\ IF Fatal(retErr)
       THEN /\ sup' = "fatal"
            /\ UNCHANGED <<pc, cycles, childVars, waiterVars, timerVars, cycleVars>>
       ELSE /\ pc' = "NewRunT"
            /\ cycles' = IF cycles < MaxCycles THEN cycles + 1 ELSE cycles
            /\ CycleReset
            /\ UNCHANGED sup
    /\ UNCHANGED <<cfgVars, relayVars>>

\* --------------------------------------- the goroutine of lines 120-122

\* cmd.Wait() returns once the child has exited, and reaps it.
WaiterWait ==
    /\ sup = "running" /\ waiter = "waiting" /\ child = "zombie"
    /\ child' = "reaped"
    /\ waiter' = "holding"
    /\ UNCHANGED <<cfgVars, sup, pc, cycles, status, disp, done, timerVars,
                   relayVars, cycleVars>>

\* done <- cmd.Wait()
WaiterSend ==
    /\ sup = "running" /\ waiter = "holding"
    /\ Len(done) < DoneCap
    /\ done' = Append(done, ErrOf(status))
    /\ waiter' = "sent"
    /\ UNCHANGED <<cfgVars, sup, pc, cycles, childVars, timerVars, relayVars, cycleVars>>

\* --------------------------------------- the goroutine of lines 180-187

\* line 181: s := <-signals
RelayRecv1 ==
    /\ sup = "running" /\ relay = "recv1"
    /\ signals # <<>>
    /\ signals' = Tail(signals)
    /\ relay' = "cancel"
    /\ UNCHANGED <<cfgVars, sup, pc, cycles, childVars, waiterVars, timerVars,
                   cancelled, sigSent, cycleVars>>

\* Mutant of RelayCancel: the first signal already ends the process.
RelayCancelExits ==
    /\ sup = "running" /\ relay = "cancel"
    /\ cancelled' = TRUE
    /\ relay' = "panicked"
    /\ sup' = "panic"
    /\ UNCHANGED <<cfgVars, pc, cycles, childVars, waiterVars, timerVars,
                   signals, sigSent, cycleVars>>

\* lines 182-183: log, cancel()
RelayCancel ==
    /\ sup = "running" /\ relay = "cancel"
    /\ cancelled' = TRUE
    /\ relay' = "recv2"
    /\ UNCHANGED <<cfgVars, sup, pc, cycles, childVars, waiterVars, timerVars,
                   signals, sigSent, cycleVars>>

\* lines 185-186: s = <-signals; log.Panicf ends the process.
RelayRecv2 ==
    /\ sup = "running" /\ relay = "recv2"
    /\ signals # <<>>
    /\ signals' = Tail(signals)
    /\ relay' = "panicked"
    /\ sup' = "panic"
    /\ UNCHANGED <<cfgVars, pc, cycles, childVars, waiterVars, timerVars,
                   cancelled, sigSent, cycleVars>>

\* ------------------------------------------------------- the environment

\* line 179, signal.Notify: the host delivers a stop signal; the runtime's send
\* on signals does not block, the signal is dropped when the channel is full.
HostSignal ==
    /\ sup = "running" /\ sigSent < MaxSignals
    /\ \E s \in HostSignals :
          signals' = IF Len(signals) < SignalsCap THEN Append(signals, s) ELSE signals
    /\ sigSent' = sigSent + 1
    /\ UNCHANGED <<cfgVars, sup, pc, cycles, childVars, waiterVars, timerVars,
                   cancelled, relay, cycleVars>>

\* The child exits on its own, with status 0 or not.
ChildExit ==
    /\ sup = "running" /\ child = "alive"
    /\ child' = "zombie"
    /\ status' \in OwnStatuses
    /\ UNCHANGED <<cfgVars, sup, pc, cycles, disp, waiterVars, timerVars,
                   relayVars, cycleVars>>

\* runT ticks; a tick is dropped while one is buffered.
RunTick ==
    /\ sup = "running" /\ runT = "active" /\ ~runTC
    /\ runTC' = TRUE
    /\ UNCHANGED <<cfgVars, sup, pc, cycles, childVars, waiterVars, runT, graceT,
                   graceTC, relayVars, cycleVars>>

\* graceT ticks.
GraceTick ==
    /\ sup = "running" /\ graceT = "active" /\ ~graceTC
    /\ graceTC' = TRUE
    /\ UNCHANGED <<cfgVars, sup, pc, cycles, childVars, waiterVars, runT, runTC,
                   graceT, relayVars, cycleVars>>

\* ---------------------------------------------------------- specification
Next ==
    \/ NewRunT \/ StartFails \/ StartOK \/ SelectRunning \/ SendTERM
    \/ NewGraceT \/ SelectTerminating \/ SendKILL \/ WaitDone \/ MainLoop
    \/ WaiterWait \/ WaiterSend
    \/ RelayRecv1 \/ RelayCancel \/ RelayRecv2
    \/ HostSignal \/ ChildExit \/ RunTick \/ GraceTick

Spec == Init /\ [][Next]_vars

\* The goroutines of the supervisor are scheduled and its tickers tick; the
\* child and the host are not obliged to do anything.
Fairness ==
    /\ WF_vars(NewRunT) /\ WF_vars(StartFails \/ StartOK) /\ WF_vars(SelectRunning)
    /\ WF_vars(SendTERM) /\ WF_vars(NewGraceT) /\ WF_vars(SelectTerminating)
    /\ WF_vars(SendKILL) /\ WF_vars(WaitDone) /\ WF_vars(MainLoop)
    /\ WF_vars(WaiterWait) /\ WF_vars(WaiterSend)
    /\ WF_vars(RelayRecv1) /\ WF_vars(RelayCancel) /\ WF_vars(RelayRecv2)
    /\ WF_vars(RunTick) /\ WF_vars(GraceTick)

FairSpec == Spec /\ Fairness

\* ------------------------------------------------------------------ claims

\* A child was started in this cycle.
Launched == child # "none"

\* The error run returned is the child's wait status st, unchanged.
OutcomeIs(st) == IF st = "exit0" THEN retErr = "nil" ELSE retErr = st

\* runT has ticked in this cycle (the tick is buffered, or the select took it).
RunTimerElapsed == runTC \/ runBranch = "tick"

\* graceT has ticked in this cycle.
GraceTimerElapsed == graceTC \/ graceBranch = "tick"

\* C1: the main loop ends the supervisor (log.Fatal) only on a launch error; after
\* every cycle whose child was started, whatever its exit status, it starts a new
\* cycle.
C1_OnlyLaunchErrorIsFatal == sup = "fatal" => retErr = "launcherr"

\* C2: when cmd.Start fails, run returns the launch error with no child, no waiter
\* and no signal sent; from then on no cycle is started (the main goroutine stays
\* where it is with that error), the only step main takes is log.Fatal, and the
\* supervisor does stop.
C2_LaunchErrorStops ==
    /\ [](retErr = "launcherr" =>
            pc = "Returned" /\ sent = <<>> /\ ~Launched /\ waiter = "none")
    /\ [][retErr = "launcherr" =>
            /\ retErr' = "launcherr" /\ pc' = pc /\ cycles' = cycles /\ child' = child
            /\ (sup' # sup => sup' \in {"fatal", "panic"})
            /\ (MainLoop => sup' = "fatal")]_vars
    /\ (retErr = "launcherr" ~> sup # "running")

C2_Witness == retErr = "launcherr" /\ sup = "fatal" /\ cycles = 1

\* C3 as stated: in every cycle that ends with the child having exited and the
\* run-period ticker never having ticked, the error run returns is the child's own
\* exit status and no signal was sent to the child.
C3_ExitBeforeRunTimer_Original ==
    (pc = "Returned" /\ Launched /\ ~RunTimerElapsed) =>
        (sent = <<>> /\ status \in OwnStatuses /\ OutcomeIs(status))

\* C3 amended: in every cycle that ends with the run-period ticker never having
\* ticked and whose Running wait did not take the cancellation case, the wait took
\* the child-exit case, the error run returns is the child's own exit status and no
\* signal was sent to the child, whose exit status has been collected.
C3_ExitBeforeRunTimer ==
    (pc = "Returned" /\ Launched /\ ~RunTimerElapsed /\ runBranch # "ctx") =>
        /\ runBranch = "done" /\ graceBranch = "none"
        /\ sent = <<>> /\ failed = {}
        /\ status \in OwnStatuses /\ OutcomeIs(status)
        /\ child = "reaped"

C3_Witness ==
    /\ pc = "Returned" /\ runBranch = "done" /\ ~RunTimerElapsed
    /\ status = "exit1" /\ retErr = "exit1" /\ sent = <<>> /\ ~cancelled

\* The signals sent so far in a cycle, by the position of the main goroutine.
SentAt(p) ==
    CASE p \in {"NewRunT", "Start", "Running", "Term"} -> <<>>
      [] p \in {"NewGraceT", "Terminating", "Kill"} -> <<"TERM">>
      [] p = "Killing" -> <<"TERM", "KILL">>
      [] p = "Returned" -> IF graceBranch = "tick" THEN <<"TERM", "KILL">>
                           ELSE IF runBranch \in {"ctx", "tick"} THEN <<"TERM">>
                           ELSE <<>>

\* C4: in a cycle that reaches the kill wait (as every cycle does whose child is
\* alive at the end of the run phase and ignores both signals), exactly one SIGTERM
\* and then exactly one SIGKILL have been sent; the kill wait is left only by
\* receiving the child's exit status from done, which is what run returns; and a
\* cycle with a child never completes before that child has been waited for.
C4_KillEscalation ==
    /\ [](sup = "running" /\ pc # "Returned" => sent = SentAt(pc))
    /\ [](pc = "Killing" \/ (pc = "Returned" /\ graceBranch = "tick") =>
            sent = <<"TERM", "KILL">> /\ runBranch \in {"ctx", "tick"})
    /\ [][pc = "Killing" /\ pc' # "Killing" =>
            /\ done # <<>> /\ child = "reaped"
            /\ pc' = "Returned" /\ retErr' = Head(done)]_vars
    /\ [](pc = "Returned" /\ Launched =>
            child = "reaped" /\ waiter = "sent" /\ OutcomeIs(status))

C4_Witness ==
    /\ pc = "Killing" /\ child = "alive" /\ done = <<>>
    /\ disp = [TERM |-> "ignore", KILL |-> "ignore"]
    /\ sent = <<"TERM", "KILL">> /\ failed = {} /\ runBranch = "tick"

\* C5: in every cycle that sent SIGTERM and ends with the grace-period ticker never
\* having ticked, exactly one SIGTERM and no SIGKILL were sent, the Terminating wait
\* took the child-exit case and run returns the child's exit status.
C5_ExitWithinGrace ==
    (pc = "Returned" /\ runBranch \in {"ctx", "tick"} /\ ~GraceTimerElapsed) =>
        /\ sent = <<"TERM">>
        /\ graceBranch = "done"
        /\ child = "reaped" /\ OutcomeIs(status)

C5_Witness ==
    /\ pc = "Returned" /\ runBranch = "tick" /\ ~GraceTimerElapsed
    /\ disp["TERM"] = "ignore" /\ status = "exit0" /\ retErr = "nil"
    /\ sent = <<"TERM">> /\ failed = {}

\* C6: a second stop signal always ends the supervisor: once the host has delivered
\* two stop signals to a running supervisor, the relay has a signal to receive for
\* its second receive (line 185) and is never left waiting for a third one.
C6_SecondSignalTerminates ==
    (sigSent >= 2 /\ sup = "running") => ~(relay = "recv2" /\ signals = <<>>)

\* C7: the relay's handling of the first signal (lines 181-183) raises the token and
\* nothing else: the process keeps running, nothing is sent to the child, the main
\* goroutine is not moved, and the relay goes on to its second receive, which it
\* takes as soon as a signal is there. The relay ends the process only at that
\* second receive, so not before two signals were delivered. SIGKILL is only ever
\* sent after SIGTERM and a tick of the grace ticker.
C7_FirstSignalOnlyCancels ==
    /\ [][relay = "recv1" /\ relay' # relay =>
            /\ relay' = "cancel" /\ sup' = "running"
            /\ UNCHANGED <<pc, sent, child, status, cancelled>>]_vars
    /\ [][relay = "cancel" /\ relay' # relay =>
            /\ cancelled' /\ relay' = "recv2" /\ sup' = "running"
            /\ UNCHANGED <<pc, sent, child, status>>]_vars
    /\ [](relay \in {"recv2", "panicked"} => cancelled)
    /\ [](relay = "panicked" => sigSent >= 2)
    /\ [](relay = "recv2" /\ signals # <<>> /\ sup = "running" => ENABLED RelayRecv2)
    /\ [](\A i \in 1..Len(sent) : sent[i] = "KILL" =>
            sent = <<"TERM", "KILL">> /\ graceBranch = "tick")

C7_Witness ==
    /\ relay = "recv2" /\ cancelled /\ sigSent = 1 /\ signals = <<>>
    /\ sup = "running" /\ pc = "Terminating" /\ runBranch = "ctx" /\ sent = <<"TERM">>

\* C8: with the token raised the Running wait can proceed at once, whatever the run
\* ticker does, and unless the child's exit status is there it goes on to send
\* SIGTERM; the grace ticker is created only after SIGTERM was sent, the
\* Terminating wait goes on to SIGKILL only by taking a tick of that ticker, and so
\* a cancelled cycle sends SIGKILL only after SIGTERM and a grace tick.
C8_CancelKeepsGrace ==
    /\ [](sup = "running" /\ pc = "Running" /\ cancelled => ENABLED SelectRunning)
    /\ [][pc = "Running" /\ cancelled /\ done = <<>> /\ ~runTC /\ pc' # pc =>
            pc' = "Term" /\ runBranch' = "ctx"]_vars
    /\ [](sup = "running" /\ pc = "Term" => ENABLED SendTERM)
    /\ [](graceT # "none" \/ graceTC => sent # <<>> /\ sent[1] = "TERM")
    /\ [][pc = "Terminating" /\ pc' # pc /\ pc' # "Returned" =>
            /\ graceTC /\ ~graceTC' /\ graceT = "active"
            /\ pc' = "Kill" /\ graceBranch' = "tick"]_vars
    /\ [](runBranch = "ctx" /\ sent # <<"TERM">> /\ sent # <<>> =>
            sent = <<"TERM", "KILL">> /\ graceBranch = "tick")

C8_Witness ==
    /\ pc = "Killing" /\ runBranch = "ctx" /\ ~RunTimerElapsed
    /\ graceBranch = "tick" /\ sent = <<"TERM", "KILL">> /\ child = "alive"

\* C9: if no stop signal is ever delivered and every child exits with status 0 before
\* the run ticker ticks (the child always exits, only ever with status 0, the ticker
\* never has a tick buffered, cmd.Start and time.NewTicker succeed), then the
\* supervisor keeps running, starts a child again and again, and never sends a signal.
C9_ImmediateExitRestartsForever ==
    ( /\ [](/\ sigSent = 0 /\ ~runTC /\ status \in {"none", "exit0"}
            /\ retErr # "launcherr" /\ runP > 0)
      /\ []<>(child # "alive") )
    => ( /\ []<>(pc = "Start")
         /\ []<>(pc = "Running" /\ child = "alive")
         /\ [](sup = "running" /\ sent = <<>>) )

C9_Witness ==
    /\ cycles = 1 /\ pc = "Running" /\ child = "alive" /\ sup = "running"
    /\ sigSent = 0 /\ ~runTC /\ sent = <<>>

\* C10: at both waits the child-exit case preempts: whenever the main goroutine
\* leaves the Running wait or the Terminating wait while the child's exit status is
\* in done, it leaves by returning that status, and sends no signal.
C10_ExitCasePreempts ==
    [][/\ (pc = "Running" /\ done # <<>> /\ pc' # pc =>
              pc' = "Returned" /\ runBranch' = "done" /\ sent' = sent)
       /\ (pc = "Terminating" /\ done # <<>> /\ pc' # pc =>
              pc' = "Returned" /\ graceBranch' = "done" /\ sent' = sent)]_vars

\* C11: the token is never lowered, and a Running wait that finds it raised can
\* proceed at once, whatever the run ticker does; when it proceeds it goes on to
\* SIGTERM, or returns the exit status if that is already in done.
C11_TokenMonotonic ==
    /\ [][cancelled => cancelled']_vars
    /\ [](sup = "running" /\ pc = "Running" /\ cancelled => ENABLED SelectRunning)
    /\ [][pc = "Running" /\ cancelled /\ pc' # pc =>
            \/ pc' = "Term" /\ runBranch' \in {"ctx", "tick"} /\ (runBranch' = "tick" => runTC)
            \/ pc' = "Returned" /\ done # <<>> /\ runBranch' = "done"]_vars
    /\ [](runBranch = "ctx" => cancelled)

C11_Witness ==
    /\ cycles = 1 /\ cancelled /\ relay = "recv2" /\ sup = "running"
    /\ pc = "Term" /\ runBranch = "ctx" /\ ~runTC /\ done = <<>> /\ child = "alive"

\* The positions of the main goroutine in the Terminating and Killing phases.
EscalationPcs == {"Term", "NewGraceT", "Terminating", "Kill", "Killing"}

\* C12: raising the token while the cycle is in Terminating or Killing changes
\* nothing of the cycle; the grace wait can proceed exactly when done or graceT.C
\* has something, and proceeds to return (done) or to SIGKILL (tick); the kill wait
\* can proceed exactly when done has something; the signals sent depend on the
\* position alone, not on the token.
C12_CancelDuringEscalation ==
    /\ [][~cancelled /\ cancelled' /\ pc \in EscalationPcs =>
            UNCHANGED <<pc, sup, childVars, waiterVars, timerVars, cycleVars>>]_vars
    /\ [](sup = "running" /\ pc = "Terminating" =>
            (ENABLED SelectTerminating <=> (done # <<>> \/ graceTC)))
    /\ [](sup = "running" /\ pc = "Killing" => (ENABLED WaitDone <=> done # <<>>))
    /\ [][pc = "Terminating" /\ pc' # pc =>
            \/ done # <<>> /\ pc' = "Returned"
            \/ graceTC /\ pc' = "Kill"]_vars
    /\ [][pc = "Killing" /\ pc' # pc => done # <<>> /\ pc' = "Returned"]_vars
    /\ [](sup = "running" /\ pc \in EscalationPcs => sent = SentAt(pc))

C12_Witness ==
    /\ pc = "Killing" /\ cancelled /\ runBranch = "tick" /\ done = <<>>
    /\ child = "alive" /\ sent = <<"TERM", "KILL">> /\ sup = "running"

\* C13: main starts a new cycle only when the previous cycle's child has been
\* waited for and its exit status received; run returns after a successful start
\* only by receiving from done; so a child is never started while another one is
\* alive or a zombie.
C13_OneChildAtATime ==
    /\ [][pc = "Returned" /\ pc' # pc =>
            /\ pc' = "NewRunT" /\ retErr = "nil"
            /\ child = "reaped" /\ waiter = "sent" /\ done = <<>>]_vars
    /\ [][pc # "Returned" /\ pc' = "Returned" /\ Launched =>
            /\ done # <<>> /\ done' = <<>> /\ retErr' = Head(done)
            /\ child = "reaped"]_vars
    /\ [][child' = "alive" /\ child # "alive" => child = "none" /\ pc = "Start"]_vars
    /\ [](pc \in {"NewRunT", "Start"} => child = "none" /\ waiter = "none")

C13_Witness ==
    /\ cycles = 1 /\ pc = "Running" /\ child = "alive" /\ waiter = "waiting"
    /\ sup = "running"

\* The phase of a cycle the main goroutine is in, numbered in the cycle's order:
\* Launching, Running, Terminating, Killing, Complete.
PhaseOf(p) ==
    CASE p \in {"NewRunT", "Start"} -> 1
      [] p = "Running" -> 2
      [] p \in {"Term", "NewGraceT", "Terminating"} -> 3
      [] p \in {"Kill", "Killing"} -> 4
      [] p = "Returned" -> 5

\* C14: within a cycle the main goroutine never moves to an earlier phase; Running
\* is entered only from Launching, Terminating only from Running, Killing only from
\* Terminating, and Complete is left only for the Launching of the next cycle.
C14_PhasesForward ==
    /\ [][pc # "Returned" => PhaseOf(pc') >= PhaseOf(pc)]_vars
    /\ [][PhaseOf(pc') # PhaseOf(pc) =>
            \/ PhaseOf(pc) = 1 /\ PhaseOf(pc') \in {2, 5}
            \/ PhaseOf(pc) = 2 /\ PhaseOf(pc') \in {3, 5}
            \/ PhaseOf(pc) = 3 /\ PhaseOf(pc') \in {4, 5}
            \/ PhaseOf(pc) = 4 /\ PhaseOf(pc') = 5
            \/ PhaseOf(pc) = 5 /\ pc' = "NewRunT"]_vars
    /\ [](PhaseOf(pc) = 4 => runBranch \in {"ctx", "tick"} /\ graceBranch = "tick")
    /\ [](PhaseOf(pc) = 3 => runBranch \in {"ctx", "tick"} /\ graceBranch = "none")
    /\ [](PhaseOf(pc) <= 2 => runBranch = "none" /\ graceBranch = "none")

C14_Witness ==
    /\ pc = "Returned" /\ runBranch = "tick" /\ graceBranch = "tick"
    /\ sent = <<"TERM", "KILL">> /\ retErr = "sigkill"

\* C15: when Signal returns an error (the child has been waited for), the step only
\* records it: the main goroutine goes on to the same next statement as after a
\* delivery, the supervisor keeps running, run does not return there, and the error
\* run returns in the end is still the child's exit status; the wait that follows
\* has, or is about to get, that status from done.
C15_SignalFailureOnlyLogged ==
    /\ [][pc = "Term" /\ pc' # pc =>
            /\ pc' = "NewGraceT" /\ sup' = "running" /\ retErr' = "none"
            /\ (child = "reaped" <=> failed' = failed \cup {"TERM"} /\ failed' # failed)
            /\ (child = "reaped" => UNCHANGED <<child, status>>)]_vars
    /\ [][pc = "Kill" /\ pc' # pc =>
            /\ pc' = "Killing" /\ sup' = "running" /\ retErr' = "none"
            /\ (child = "reaped" <=> failed' = failed \cup {"KILL"} /\ failed' # failed)
            /\ (child = "reaped" => UNCHANGED <<child, status>>)]_vars
    /\ [](pc = "Returned" /\ Launched => OutcomeIs(status))
    /\ [](failed # {} /\ sup = "running" /\ pc \in {"Terminating", "Killing"} =>
            \/ ENABLED WaiterSend
            \/ pc = "Terminating" /\ ENABLED SelectTerminating /\ done # <<>>
            \/ pc = "Killing" /\ ENABLED WaitDone)

C15_Witness ==
    /\ pc = "Returned" /\ failed = {"TERM", "KILL"} /\ status = "exit0"
    /\ retErr = "nil" /\ sup = "running"

\* C16: SIGTERM is sent only after the Running wait took a tick of runT or found the
\* token raised; SIGKILL only after SIGTERM of the same cycle and a tick of graceT,
\* which was created after that SIGTERM; nothing is sent once run has received the
\* child's exit status.
C16_SignalsHaveCause ==
    /\ [][runBranch' = "tick" /\ runBranch # "tick" => runTC /\ runT = "active"]_vars
    /\ [][runBranch' = "ctx" /\ runBranch # "ctx" => cancelled]_vars
    /\ [][graceBranch' = "tick" /\ graceBranch # "tick" =>
            graceTC /\ graceT = "active" /\ sent = <<"TERM">>]_vars
    /\ [](graceT # "none" => sent # <<>>)
    /\ [][sent' # sent /\ sent' # <<>> =>
            /\ retErr = "none" /\ runBranch \in {"ctx", "tick"}
            /\ graceBranch # "done"
            /\ \/ sent = <<>> /\ sent' = <<"TERM">> /\ graceBranch = "none"
               \/ sent = <<"TERM">> /\ sent' = <<"TERM", "KILL">> /\ graceBranch = "tick"]_vars

C16_Witness ==
    /\ pc = "Killing" /\ sent = <<"TERM", "KILL">> /\ runBranch = "tick"
    /\ graceBranch = "tick" /\ ~cancelled /\ failed = {}

\* C17: with the token raised, a cycle that returned nil is followed by another
\* cycle: main's only step is to call run again, never log.Fatal; the new cycle
\* can start a child, and its Running wait can at once go on to SIGTERM.
C17_CancelDoesNotStopLoop ==
    /\ [](sup = "running" /\ pc = "Returned" /\ retErr = "nil" /\ cancelled =>
            ENABLED (MainLoop /\ pc' = "NewRunT"))
    /\ [][pc = "Returned" /\ retErr = "nil" /\ cancelled /\ MainLoop =>
            pc' = "NewRunT" /\ sup' = "running" /\ cancelled']_vars
    /\ [](sup = "fatal" => retErr \notin {"none", "nil"})
    /\ [](sup = "running" /\ pc = "Start" => ENABLED StartOK)
    /\ [](sup = "running" /\ pc = "Running" /\ cancelled =>
            ENABLED (SelectRunning /\ pc' = "Term"))

C17_Witness ==
    /\ cycles = 1 /\ cancelled /\ sigSent = 1 /\ relay = "recv2" /\ sup = "running"
    /\ pc = "Returned" /\ runBranch = "ctx" /\ retErr = "nil" /\ sent = <<"TERM">>

\* C18: the waiter goroutine exists once per started child, its send on done can
\* always proceed, done never holds more than the one exit status of that child, and
\* the only other change of done is the main goroutine's receive, which is a return
\* of run: when the cycle is complete the waiter has sent and done is empty.
C18_OneOutcomePerChild ==
    /\ [](sup = "running" /\ waiter = "holding" => ENABLED WaiterSend)
    /\ [](Len(done) <= 1)
    /\ [](done # <<>> =>
            /\ waiter = "sent" /\ child = "reaped"
            /\ done[1] = (IF status = "exit0" THEN "nil" ELSE status))
    /\ [][done' # done =>
            \/ done = <<>> /\ waiter = "holding" /\ waiter' = "sent"
            \/ /\ done' = <<>> /\ waiter = "sent" /\ waiter' = "sent"
               /\ pc # "Returned" /\ pc' = "Returned" /\ retErr' = done[1]]_vars
    /\ [][waiter' # waiter =>
            \/ waiter = "none" /\ waiter' = "waiting" /\ pc = "Start" /\ child' = "alive"
            \/ waiter = "waiting" /\ waiter' = "holding"
            \/ waiter = "holding" /\ waiter' = "sent"
            \/ waiter = "sent" /\ waiter' = "none" /\ pc = "Returned" /\ done = <<>>]_vars
    /\ [](pc = "Returned" /\ Launched => waiter = "sent" /\ done = <<>>)
    /\ [](waiter = "sent" /\ done = <<>> => pc = "Returned")

C18_Witness ==
    /\ pc = "Returned" /\ waiter = "sent" /\ done = <<>> /\ graceBranch = "tick"
    /\ retErr = "sigkill" /\ child = "reaped"

\* C19: with a run period that is not positive the first statement of run panics:
\* no child is ever started and nothing is sent. With a positive run period and a
\* grace period that is not positive, run panics at line 140: SIGTERM has been
\* sent, no grace ticker exists, no SIGKILL is ever sent, and the exit status of
\* the child, which may still be alive, is never received.
C19_DurationsNotValidated ==
    /\ [](runP <= 0 =>
            pc = "NewRunT" /\ child = "none" /\ sent = <<>> /\ cycles = 0 /\ runT = "none")
    /\ [](runP <= 0 /\ sup = "running" =>
            ENABLED NewRunT /\ ~ENABLED (NewRunT /\ sup' = "running"))
    /\ [](graceP <= 0 =>
            /\ pc \notin {"Terminating", "Kill", "Killing"} /\ graceT = "none"
            /\ sent \in {<<>>, <<"TERM">>}
            /\ (pc = "Returned" /\ Launched => runBranch = "done" /\ sent = <<>>))
    /\ [](graceP <= 0 /\ sup = "running" /\ pc = "NewGraceT" =>
            /\ sent = <<"TERM">> /\ retErr = "none"
            /\ ENABLED NewGraceT /\ ~ENABLED (NewGraceT /\ sup' = "running"))
    /\ [][NewGraceT /\ graceP <= 0 =>
            sup' = "panic" /\ UNCHANGED <<pc, child, status, done, retErr, sent>>]_vars

C19_Witness ==
    /\ sup = "panic" /\ relay # "panicked" /\ pc = "NewGraceT"
    /\ runP > 0 /\ graceP = 0
    /\ sent = <<"TERM">> /\ child = "alive" /\ retErr = "none"

TypeOK ==
    /\ runP \in Periods /\ graceP \in Periods
    /\ sup \in {"running", "fatal", "panic"}
    /\ pc \in {"NewRunT", "Start", "Running", "Term", "NewGraceT", "Terminating",
               "Kill", "Killing", "Returned"}
    /\ cycles \in 0..MaxCycles
    /\ child \in {"none", "alive", "zombie", "reaped"}
    /\ status \in Statuses \cup {"none"}
    /\ waiter \in {"none", "waiting", "holding", "sent"}
    /\ Len(done) <= DoneCap /\ Len(signals) <= SignalsCap
    /\ runT \in {"none", "active", "stopped"} /\ graceT \in {"none", "active", "stopped"}
    /\ runTC \in BOOLEAN /\ graceTC \in BOOLEAN /\ cancelled \in BOOLEAN
    /\ sigSent \in 0..MaxSignals
    /\ relay \in {"recv1", "cancel", "recv2", "panicked"}
    /\ Len(sent) <= 2 /\ failed \subseteq {"TERM", "KILL"}
    /\ runBranch \in {"none", "ctx", "done", "tick"}
    /\ graceBranch \in {"none", "done", "tick"}
    /\ retErr \in {"none", "nil", "launcherr"} \cup Statuses
====
